---- MODULE Spec2Model ----
(***************************************************************************)
(* A model of the storage kernel of rimple: the Page codec, the block      *)
(* level FileManager, the LogManager with its reverse LogIterator, and the *)
(* Buffer / BufferManager pool with its pin protocol.                      *)
(*                                                                         *)
(* Pages are byte sequences (TLA+ sequences are 1-based, the code's        *)
(* offsets are 0-based: byte `offset` of the code is page[offset + 1]).    *)
(* A file is the sequence of its blocks; block_no k is files[path][k+1].   *)
(***************************************************************************)
EXTENDS Integers, Sequences, FiniteSets, TLC

VARIABLES
    files,        \* the disk: path -> sequence of block-sized pages
    log,          \* the LogManager: log_page, current_block, latest_lsn, latest_saved_lsn
    pool,         \* BufferManager.pool: sequence of Buffer records
    available,    \* BufferManager.available
    pc,           \* per thread: position inside the call it is executing
    call,         \* per thread: arguments, locals and result of the call in progress
    pool_lock,    \* the threads holding the guard of SimpleDB's Mutex<BufferManager>
    buf_lock,     \* per pool slot: owner of the Mutex<Buffer> (0 = free)
    handles,      \* the pool slots whose Arc<Mutex<Buffer>> a pin has handed out
    calls,        \* number of API calls the clients have made so far
    faults,       \* number of I/O failures the environment has injected so far
    appended,     \* history: the records of the successful appends, in LSN order
    wal,          \* history: the data-page writes done by Buffer.flush
    pin_run,      \* history: blocks pinned in a row since the pool was all unpinned
    user_page,    \* a Page a client owns and works on directly
    root_dir      \* the database directory: its path, whether it exists, its files

vars == << files, log, pool, available, pc, call, pool_lock, buf_lock,
           handles, calls, faults, appended, wal, pin_run, user_page, root_dir >>

---------------------------------------------------------------------------
(* Bounds of the model *)

BlockSize == 12      \* block_size handed to FileManager::new
NumBuffers == 2      \* num_buffers handed to BufferManager::new
MaxLsn == 3          \* appends per run of the log alone
PoolMaxLsn == 2      \* appends per run next to the buffer pool
MaxCalls == 6        \* API calls per run
MaxFaults == 1       \* injected I/O failures per run
MaxTime == 2         \* max_time, counted in polling intervals of pin's loop
NumThreads == 2      \* threads sharing the SimpleDB handles
MaxPageLen == 6      \* length of the longest Page a client makes
MaxPageCalls == 2    \* calls a client makes on its Page

I32Size == 4         \* std::mem::size_of::<i32>()

---------------------------------------------------------------------------
(* Generic helpers *)

SeqReverse(s) == [i \in 1..Len(s) |-> s[Len(s) + 1 - i]]

SeqIsSuffix(s, t) ==
    /\ Len(s) <= Len(t)
    /\ SubSeq(t, Len(t) - Len(s) + 1, Len(t)) = s

MaxOf(a, b) == IF a >= b THEN a ELSE b

Ok(v) == [ok |-> TRUE, val |-> v, err |-> "none"]
Err(e) == [ok |-> FALSE, val |-> 0, err |-> e]

(* `x as usize` for an i32 x: negative values wrap to the top of the usize  *)
(* range.  TLC's integers are 32 bits wide, so the top of the range is      *)
(* scaled to 2^30; only comparisons with small offsets depend on it.        *)
AsUsize(x) == IF x < 0 THEN 2^30 + x ELSE x

---------------------------------------------------------------------------
(* Page: big-endian i32 and length-prefixed byte strings *)

with_size(size) == [i \in 1..size |-> 0]

\* i32::to_le_bytes: the least significant byte first
to_le_bytes(v) ==
    << v % 256, (v \div 256) % 256, (v \div 65536) % 256, (v \div 16777216) % 256 >>

to_be_bytes(v) ==
    << (v \div 16777216) % 256, (v \div 65536) % 256, (v \div 256) % 256, v % 256 >>

from_be_bytes(b) ==
    (IF b[1] >= 128 THEN b[1] - 256 ELSE b[1]) * 16777216
        + b[2] * 65536 + b[3] * 256 + b[4]

copy_from_slice(content, start, bytes) ==
    [i \in 1..Len(content) |->
        IF i > start /\ i <= start + Len(bytes) THEN bytes[i - start] ELSE content[i]]

assert_offset_within_bounds(content, offset, size) ==
    IF offset + size > Len(content) THEN Err("OutOfBounds") ELSE Ok(0)

get_integer(content, offset) ==
    IF ~assert_offset_within_bounds(content, offset, I32Size).ok
    THEN Err("OutOfBounds")
    ELSE Ok(from_be_bytes(SubSeq(content, offset + 1, offset + I32Size)))

\* result: [ok, err, page]; the page is returned unchanged on error
set_integer(content, offset, value) ==
    IF ~assert_offset_within_bounds(content, offset, I32Size).ok
    THEN [ok |-> FALSE, err |-> "OutOfBounds", page |-> content]
    ELSE [ok |-> TRUE, err |-> "none",
          page |-> copy_from_slice(content, offset, to_be_bytes(value))]

\* get_bytes without the conversion of the stored length to usize
get_bytes_any_length(content, offset) ==
    IF ~assert_offset_within_bounds(content, offset, I32Size).ok
    THEN Err("OutOfBounds")
    ELSE LET length == get_integer(content, offset).val IN
         IF offset + I32Size + length > Len(content) THEN Err("InvalidData")
         ELSE Ok(SubSeq(content, offset + I32Size + 1, offset + I32Size + length))

get_bytes(content, offset) ==
    IF ~assert_offset_within_bounds(content, offset, I32Size).ok
    THEN Err("OutOfBounds")
    ELSE LET length == get_integer(content, offset).val IN
         IF length < 0 THEN Err("InvalidData")
         ELSE IF offset + I32Size + length > Len(content) THEN Err("InvalidData")
         ELSE Ok(SubSeq(content, offset + I32Size + 1, offset + I32Size + length))

set_bytes(content, offset, bytes) ==
    IF ~assert_offset_within_bounds(content, offset, I32Size).ok
    THEN [ok |-> FALSE, err |-> "OutOfBounds", page |-> content]
    ELSE IF offset + 4 + Len(bytes) > Len(content)
    THEN [ok |-> FALSE, err |-> "SizeExceeded", page |-> content,
          requested |-> offset + 4 + Len(bytes), available |-> Len(content)]
    ELSE [ok |-> TRUE, err |-> "none",
          page |-> copy_from_slice(set_integer(content, offset, Len(bytes)).page,
                                   offset + 4, bytes)]

\* str::as_bytes: the UTF-8 encoding of a string, given as its code points
RECURSIVE as_bytes(_)
as_bytes(s) ==
    IF s = << >> THEN << >>
    ELSE LET c == Head(s) IN
         (IF c < 128 THEN << c >>
          ELSE IF c < 2048 THEN << 192 + (c \div 64), 128 + (c % 64) >>
          ELSE IF c < 65536
          THEN << 224 + (c \div 4096), 128 + ((c \div 64) % 64), 128 + (c % 64) >>
          ELSE << 240 + (c \div 262144), 128 + ((c \div 4096) % 64),
                  128 + ((c \div 64) % 64), 128 + (c % 64) >>)
         \o as_bytes(Tail(s))

IsContinuation(b) == b >= 128 /\ b <= 191

\* the width of the well-formed UTF-8 sequence that starts bytes, 0 if none
Utf8Width(bytes) ==
    LET n == Len(bytes)
        b1 == bytes[1]
    IN IF b1 < 128 THEN 1
       ELSE IF b1 >= 194 /\ b1 <= 223 /\ n >= 2 /\ IsContinuation(bytes[2]) THEN 2
       ELSE IF /\ b1 >= 224 /\ b1 <= 239 /\ n >= 3
               /\ IsContinuation(bytes[2]) /\ IsContinuation(bytes[3])
               /\ (b1 = 224 => bytes[2] >= 160)
               /\ (b1 = 237 => bytes[2] <= 159) THEN 3
       ELSE IF /\ b1 >= 240 /\ b1 <= 244 /\ n >= 4
               /\ IsContinuation(bytes[2]) /\ IsContinuation(bytes[3])
               /\ IsContinuation(bytes[4])
               /\ (b1 = 240 => bytes[2] >= 144)
               /\ (b1 = 244 => bytes[2] <= 143) THEN 4
       ELSE 0

Utf8CodePoint(bytes, width) ==
    IF width = 1 THEN bytes[1]
    ELSE IF width = 2 THEN (bytes[1] - 192) * 64 + (bytes[2] - 128)
    ELSE IF width = 3
    THEN (bytes[1] - 224) * 4096 + (bytes[2] - 128) * 64 + (bytes[3] - 128)
    ELSE (bytes[1] - 240) * 262144 + (bytes[2] - 128) * 4096
             + (bytes[3] - 128) * 64 + (bytes[4] - 128)

\* one step of from_utf8_at: the sequence of `width` bytes at i
RECURSIVE from_utf8_at(_, _, _)
from_utf8_step(bytes, i, acc, width) ==
    IF width = 0 THEN Err("Utf8Error")
    ELSE from_utf8_at(bytes, i + width,
                      Append(acc, Utf8CodePoint(SubSeq(bytes, i, Len(bytes)), width)))

\* std::str::from_utf8, decoding from position i on, `acc` decoded so far
from_utf8_at(bytes, i, acc) ==
    IF i > Len(bytes) THEN Ok(acc)
    ELSE from_utf8_step(bytes, i, acc, Utf8Width(SubSeq(bytes, i, Len(bytes))))

from_utf8(bytes) == from_utf8_at(bytes, 1, << >>)

get_string(content, offset) ==
    LET b == get_bytes(content, offset) IN
    IF ~b.ok THEN b
    ELSE IF from_utf8(b.val).ok THEN from_utf8(b.val) ELSE Err("InvalidData")

set_string(content, offset, s) == set_bytes(content, offset, as_bytes(s))

(* Offsets are usize; the range is scaled to 2^30 as in AsUsize.  Where     *)
(* `offset + size` exceeds the range, a build with overflow checks panics   *)
(* at the addition; a build without them goes on with the wrapped sum, and  *)
(* panics at the slice `content[offset..wrapped]` if the bounds test lets   *)
(* the wrapped sum pass.  `checks` is TRUE for a build with overflow checks. *)
UsizeRange == 2^30

Overflows(offset, size) == offset + size >= UsizeRange

Panic(content) == [ok |-> FALSE, val |-> 0, err |-> "panic", page |-> content]

\* assert_offset_within_bounds(offset, 4) where offset + 4 overflows
wrapped_bounds(checks, content, offset) ==
    IF checks THEN "panic"
    ELSE IF offset + I32Size - UsizeRange > Len(content) THEN "OutOfBounds"
    ELSE "passed"

PageGetInteger(checks, content, offset) ==
    IF ~Overflows(offset, I32Size) THEN get_integer(content, offset)
    ELSE IF wrapped_bounds(checks, content, offset) = "OutOfBounds"
    THEN Err("OutOfBounds")
    ELSE Panic(content)

PageSetInteger(checks, content, offset, value) ==
    IF ~Overflows(offset, I32Size) THEN set_integer(content, offset, value)
    ELSE IF wrapped_bounds(checks, content, offset) = "OutOfBounds"
    THEN [ok |-> FALSE, err |-> "OutOfBounds", page |-> content]
    ELSE Panic(content)

PageGetBytes(checks, content, offset) ==
    IF ~Overflows(offset, I32Size) THEN get_bytes(content, offset)
    ELSE IF wrapped_bounds(checks, content, offset) = "OutOfBounds"
    THEN Err("OutOfBounds")
    ELSE Panic(content)

PageSetBytes(checks, content, offset, bytes) ==
    IF ~Overflows(offset, I32Size) THEN set_bytes(content, offset, bytes)
    ELSE IF wrapped_bounds(checks, content, offset) = "OutOfBounds"
    THEN [ok |-> FALSE, err |-> "OutOfBounds", page |-> content]
    ELSE IF wrapped_bounds(checks, content, offset) = "passed"
            /\ offset + 4 - UsizeRange + Len(bytes) > Len(content)
    THEN [ok |-> FALSE, err |-> "SizeExceeded", page |-> content,
          requested |-> offset + 4 - UsizeRange + Len(bytes),
          available |-> Len(content)]
    ELSE Panic(content)

PageGetString(checks, content, offset) ==
    IF ~Overflows(offset, I32Size) THEN get_string(content, offset)
    ELSE PageGetBytes(checks, content, offset)

PageSetString(checks, content, offset, s) ==
    PageSetBytes(checks, content, offset, as_bytes(s))

---------------------------------------------------------------------------
(* BlockId and FileManager.  Every fallible I/O call takes `fail`: TRUE     *)
(* when the operating system reports an error for it.  A failed write       *)
(* leaves the file as it was; a failed read leaves the caller's page as it  *)
(* was.                                                                     *)

BlockId(path, block_no) == [path |-> path, block_no |-> block_no]

LOG_FILE == "log"
DATA_FILE == "data"
TABLE_FILE == "tbl"

(* Paths and file names are strings, kept as sequences of characters.  A  *)
(* directory is [path, exists, entries]: entries are the names of the      *)
(* regular files in it.                                                     *)
TEMP_MARKER == << "t", "e", "m", "p" >>

\* the names of DATA_FILE and LOG_FILE
DataName == << "d", "a", "t", "a" >>
LogName == << "l", "o", "g" >>

str_starts_with(s, prefix) ==
    Len(s) >= Len(prefix) /\ SubSeq(s, 1, Len(prefix)) = prefix

\* Path::join of a directory path and a file name
path_join(dir, name) ==
    IF dir = << >> \/ dir[Len(dir)] = "/" THEN dir \o name
    ELSE dir \o << "/" >> \o name

\* FileManager::new: the directory is created if missing, then every entry
\* whose path begins with the marker is removed
FileManagerNew(d) ==
    LET made == [d EXCEPT !.exists = TRUE]
        removed == {name \in made.entries :
                       str_starts_with(path_join(d.path, name), TEMP_MARKER)}
    IN [made EXCEPT !.entries = made.entries \ removed]

\* size(): the block count, or 0 when the file cannot be inspected
FmSize(fs, path, fail) == IF fail THEN 0 ELSE Len(fs[path])

\* read(): read_exact fails when the file ends before the block does
FmRead(fs, blk, fail) ==
    IF fail \/ blk.block_no >= Len(fs[blk.path])
    THEN [ok |-> FALSE, page |-> << >>]
    ELSE [ok |-> TRUE, page |-> fs[blk.path][blk.block_no + 1]]

\* write(): seek to block_no * block_size and write the page; writing past
\* the end of the file extends it (the gap reads as zeroes)
FmWrite(fs, blk, page, fail) ==
    IF fail THEN [ok |-> FALSE, files |-> fs]
    ELSE LET old == fs[blk.path]
             n == MaxOf(Len(old), blk.block_no + 1)
             new == [k \in 1..n |->
                        IF k = blk.block_no + 1 THEN page
                        ELSE IF k <= Len(old) THEN old[k]
                        ELSE with_size(Len(page))]
         IN [ok |-> TRUE, files |-> [fs EXCEPT ![blk.path] = new]]

\* append_block(): a zero block written at block number size(path)
FmAppendBlock(fs, path, sizeFail, writeFail) ==
    LET new_block_id == BlockId(path, FmSize(fs, path, sizeFail))
        w == FmWrite(fs, new_block_id, with_size(BlockSize), writeFail)
    IN [ok |-> w.ok, blk |-> new_block_id, files |-> w.files]

---------------------------------------------------------------------------
(* LogManager.  A LogManager value is the record                            *)
(*   [log_page, current_block, latest_lsn, latest_saved_lsn].               *)
(* Its operations return the new LogManager and the new disk together with  *)
(* ok = FALSE when the call returned Err.  `failAt` names the I/O call of   *)
(* the operation that the environment makes fail ("none" for no failure).   *)

\* usize subtraction of a release build: wraps below zero
usize_sub(a, b) == IF a < b THEN 2^30 + (a - b) ELSE a - b

\* flush_internal recording one LSN more than the log has handed out
flush_internal_ahead(lm, fs, failAt) ==
    LET w == FmWrite(fs, lm.current_block, lm.log_page, failAt = "flush_internal") IN
    IF ~w.ok THEN [ok |-> FALSE, log |-> lm, files |-> fs]
    ELSE [ok |-> TRUE,
          log |-> [lm EXCEPT !.latest_saved_lsn = lm.latest_lsn + 1],
          files |-> w.files]

flush_internal(lm, fs, failAt) ==
    LET w == FmWrite(fs, lm.current_block, lm.log_page, failAt = "flush_internal") IN
    IF ~w.ok THEN [ok |-> FALSE, log |-> lm, files |-> fs]
    ELSE [ok |-> TRUE,
          log |-> [lm EXCEPT !.latest_saved_lsn = lm.latest_lsn],
          files |-> w.files]

\* LogManager::flush that writes whatever LSN it is asked for
log_flush_always(lm, fs, lsn, failAt) == flush_internal(lm, fs, failAt)

log_flush(lm, fs, lsn, failAt) ==
    IF lsn >= lm.latest_saved_lsn
    THEN flush_internal(lm, fs, failAt)
    ELSE [ok |-> TRUE, log |-> lm, files |-> fs]

append_new_block(lm, fs, failAt) ==
    LET a == FmAppendBlock(fs, LOG_FILE, failAt = "size", failAt = "append_block") IN
    IF ~a.ok THEN [ok |-> FALSE, blk |-> lm.current_block, log |-> lm, files |-> fs]
    ELSE LET page == set_integer(lm.log_page, 0, BlockSize).page
             w == FmWrite(a.files, a.blk, page, failAt = "write_new_block")
             lm1 == [lm EXCEPT !.log_page = page]
         IN IF ~w.ok
            THEN [ok |-> FALSE, blk |-> lm.current_block, log |-> lm1, files |-> a.files]
            ELSE [ok |-> TRUE, blk |-> a.blk, log |-> lm1, files |-> w.files]

\* append's last steps without the increment of latest_lsn
append_record_keeps_lsn(lm, fs, boundary, record) ==
    LET rec_pos == usize_sub(boundary, Len(record) + I32Size)
        sb == set_bytes(lm.log_page, rec_pos, record)
        si == set_integer(sb.page, 0, rec_pos)
    IN IF ~sb.ok \/ ~si.ok THEN [ok |-> FALSE, lsn |-> 0, log |-> lm, files |-> fs]
       ELSE [ok |-> TRUE, lsn |-> lm.latest_lsn,
             log |-> [lm EXCEPT !.log_page = si.page], files |-> fs]

\* the part of append that follows the rollover decision: place the record
\* below `boundary` in the tail page and take the next LSN
append_record(lm, fs, boundary, record) ==
    LET bytes_needed == Len(record) + I32Size
        rec_pos == usize_sub(boundary, bytes_needed)
        sb == set_bytes(lm.log_page, rec_pos, record)
        si == set_integer(sb.page, 0, rec_pos)
    IN IF ~sb.ok THEN [ok |-> FALSE, lsn |-> 0, log |-> lm, files |-> fs]
       ELSE IF ~si.ok
            THEN [ok |-> FALSE, lsn |-> 0,
                  log |-> [lm EXCEPT !.log_page = sb.page], files |-> fs]
       ELSE [ok |-> TRUE, lsn |-> lm.latest_lsn + 1,
             log |-> [lm EXCEPT !.log_page = si.page,
                                !.latest_lsn = lm.latest_lsn + 1],
             files |-> fs]

append(lm, fs, record, failAt) ==
    LET b == get_integer(lm.log_page, 0)
        boundary == AsUsize(b.val)
        bytes_needed == Len(record) + I32Size
    IN
    IF ~b.ok THEN [ok |-> FALSE, lsn |-> 0, log |-> lm, files |-> fs]
    ELSE IF boundary < I32Size + bytes_needed
    THEN LET f == flush_internal(lm, fs, failAt) IN
         IF ~f.ok THEN [ok |-> FALSE, lsn |-> 0, log |-> lm, files |-> fs]
         ELSE LET n == append_new_block(f.log, f.files, failAt) IN
              IF ~n.ok THEN [ok |-> FALSE, lsn |-> 0, log |-> n.log, files |-> n.files]
              ELSE LET lm2 == [n.log EXCEPT !.current_block = n.blk]
                       b2 == get_integer(lm2.log_page, 0)
                   IN IF ~b2.ok
                      THEN [ok |-> FALSE, lsn |-> 0, log |-> lm2, files |-> n.files]
                      ELSE append_record(lm2, n.files, AsUsize(b2.val), record)
    ELSE append_record(lm, fs, boundary, record)

\* LogManager::new on a disk `fs`: a first block when the log file is empty,
\* otherwise the file's last block becomes the tail
LogManagerNew(fs, failAt) ==
    LET log_size == FmSize(fs, LOG_FILE, failAt = "size")
        fresh == [log_page |-> with_size(BlockSize), current_block |-> BlockId(LOG_FILE, 0),
                  latest_lsn |-> 0, latest_saved_lsn |-> 0]
    IN IF log_size = 0
       THEN LET a == FmAppendBlock(fs, LOG_FILE, failAt = "size", failAt = "append_block")
                page == set_integer(with_size(BlockSize), 0, BlockSize).page
                w == FmWrite(a.files, a.blk, page, failAt = "write_new_block")
            IN IF ~a.ok THEN [ok |-> FALSE, log |-> fresh, files |-> fs]
               ELSE IF ~w.ok THEN [ok |-> FALSE, log |-> fresh, files |-> a.files]
               ELSE [ok |-> TRUE,
                     log |-> [fresh EXCEPT !.log_page = page, !.current_block = a.blk],
                     files |-> w.files]
       ELSE LET block == BlockId(LOG_FILE, log_size - 1)
                r == FmRead(fs, block, failAt = "read")
            IN IF ~r.ok THEN [ok |-> FALSE, log |-> fresh, files |-> fs]
               ELSE [ok |-> TRUE,
                     log |-> [fresh EXCEPT !.log_page = r.page, !.current_block = block],
                     files |-> fs]

---------------------------------------------------------------------------
(* LogIterator.  An iterator value is [blk, page, boundary,                 *)
(* current_position]; it reads the disk, never the LogManager's tail page.  *)

iter_new(fs, blk, fail) ==
    LET r == FmRead(fs, blk, fail)
        b == get_integer(r.page, 0)
    IN IF ~r.ok \/ ~b.ok THEN [ok |-> FALSE, it |-> << >>]
       ELSE [ok |-> TRUE,
             it |-> [blk |-> blk, page |-> r.page, boundary |-> b.val,
                     current_position |-> AsUsize(b.val)]]

\* the record at current_position, or None when it cannot be decoded
iter_yield(it) ==
    LET record == get_bytes(it.page, it.current_position) IN
    IF ~record.ok THEN [some |-> FALSE, rec |-> << >>, it |-> it]
    ELSE [some |-> TRUE, rec |-> record.val,
          it |-> [it EXCEPT !.current_position =
                      it.current_position + I32Size + Len(record.val)]]

iter_next(fs, it, fail) ==
    IF it.current_position >= BlockSize /\ it.blk.block_no = 0
    THEN [some |-> FALSE, rec |-> << >>, it |-> it]
    ELSE IF it.current_position = BlockSize
    THEN LET blk == BlockId(it.blk.path, it.blk.block_no - 1)
             r == FmRead(fs, blk, fail)
             it1 == [it EXCEPT !.blk = blk]
         IN IF ~r.ok THEN [some |-> FALSE, rec |-> << >>, it |-> it1]
            ELSE LET it2 == [it1 EXCEPT !.page = r.page]
                     b == get_integer(r.page, 0)
                 IN IF ~b.ok THEN [some |-> FALSE, rec |-> << >>, it |-> it2]
                    ELSE iter_yield([it2 EXCEPT !.boundary = b.val,
                                                !.current_position = AsUsize(b.val)])
    ELSE iter_yield(it)

\* everything an iterator yields until its first None, no read failing
RECURSIVE iter_collect(_, _)
iter_collect(fs, it) ==
    LET n == iter_next(fs, it, FALSE) IN
    IF ~n.some THEN << >> ELSE << n.rec >> \o iter_collect(fs, n.it)

\* `for entry in log_manager.iter()`: the records a scan of the log yields
log_iter(lm, fs) ==
    LET i == iter_new(fs, lm.current_block, FALSE) IN
    IF ~i.ok THEN << >> ELSE iter_collect(fs, i.it)

---------------------------------------------------------------------------
(* Buffer.  A Buffer value is [page, block_id, pins, txnum, lsn]; block_id  *)
(* is an Option: the empty set for None, {blk} for Some(blk).               *)

BufferNew ==
    [page |-> with_size(BlockSize), block_id |-> {}, pins |-> 0, txnum |-> -1, lsn |-> -1]

set_modified(b, txnum, lsn) ==
    [b EXCEPT !.txnum = txnum, !.lsn = IF lsn >= 0 THEN lsn ELSE b.lsn]

is_pinned(b) == b.pins > 0

\* modifying_txn that reports transaction 0 for every buffer
modifying_txn_zero(b) == 0

modifying_txn(b) == b.txnum

buffer_pin(b) == [b EXCEPT !.pins = b.pins + 1]

buffer_unpin(b) == IF b.pins > 0 THEN [b EXCEPT !.pins = b.pins - 1] ELSE b

\* Buffer::flush with its two steps swapped: the data page first, the log after
buffer_flush_data_first(b, lm, fs, failAt) ==
    IF b.txnum >= 0 /\ b.block_id # {}
    THEN LET blk == CHOOSE x \in b.block_id : TRUE
             w == FmWrite(fs, blk, b.page, failAt = "data_write")
             f == log_flush(lm, w.files, AsUsize(b.lsn), failAt)
         IN IF ~w.ok
            THEN [ok |-> FALSE, log |-> lm, files |-> fs, writes |-> << >>]
            ELSE [ok |-> f.ok, log |-> f.log, files |-> f.files,
                  writes |-> << [block |-> blk, lsn |-> b.lsn, log_flushed |-> FALSE,
                                 saved_lsn |-> lm.latest_saved_lsn] >>]
    ELSE [ok |-> TRUE, log |-> lm, files |-> fs, writes |-> << >>]

\* the second half of Buffer::flush, reached with the result f of its log
\* flush: the write of the data page
buffer_flush_write(b, f, failAt) ==
    IF ~f.ok
    THEN [ok |-> FALSE, log |-> f.log, files |-> f.files, writes |-> << >>]
    ELSE IF b.block_id = {}
    THEN [ok |-> FALSE, log |-> f.log, files |-> f.files, writes |-> << >>]
    ELSE LET blk == CHOOSE x \in b.block_id : TRUE
             w == FmWrite(f.files, blk, b.page, failAt = "data_write")
         IN IF ~w.ok
            THEN [ok |-> FALSE, log |-> f.log, files |-> f.files, writes |-> << >>]
            ELSE [ok |-> TRUE, log |-> f.log, files |-> w.files,
                  writes |-> << [block |-> blk, lsn |-> b.lsn,
                                 log_flushed |-> f.ok,
                                 saved_lsn |-> f.log.latest_saved_lsn] >>]

\* Buffer::flush.  `writes` is the history of the call: one entry per data
\* page written, with what the log had made durable at that moment.
buffer_flush(b, lm, fs, failAt) ==
    IF b.txnum >= 0
    THEN buffer_flush_write(b, log_flush(lm, fs, AsUsize(b.lsn), failAt), failAt)
    ELSE [ok |-> TRUE, log |-> lm, files |-> fs, writes |-> << >>]

\* assign_to_block after its flush returned f: the buffer is bound to the
\* new block, then the block is read into its page
assign_to_block_read(b, block_id, f, failAt) ==
    IF ~f.ok
    THEN [ok |-> FALSE, buf |-> b, log |-> f.log, files |-> f.files, writes |-> f.writes]
    ELSE LET b1 == [b EXCEPT !.block_id = {block_id}]
             r == FmRead(f.files, block_id, failAt = "read")
         IN IF ~r.ok
            THEN [ok |-> FALSE, buf |-> b1, log |-> f.log, files |-> f.files,
                  writes |-> f.writes]
            ELSE [ok |-> TRUE, buf |-> [b1 EXCEPT !.page = r.page, !.pins = 0],
                  log |-> f.log, files |-> f.files, writes |-> f.writes]

\* assign_to_block that rebinds and reloads without flushing first
assign_to_block_unflushed(b, block_id, lm, fs, failAt) ==
    LET r == FmRead(fs, block_id, failAt = "read") IN
    [ok |-> r.ok,
     buf |-> IF r.ok THEN [b EXCEPT !.block_id = {block_id}, !.page = r.page, !.pins = 0]
             ELSE [b EXCEPT !.block_id = {block_id}],
     log |-> lm, files |-> fs, writes |-> << >>]

assign_to_block(b, block_id, lm, fs, failAt) ==
    assign_to_block_read(b, block_id, buffer_flush(b, lm, fs, failAt), failAt)

---------------------------------------------------------------------------
(* BufferManager.  The operations take the pool and the available counter   *)
(* and return the new ones; slot 0 stands for "no buffer".                  *)

Slots == 1..NumBuffers

\* find_existing_buffer that never recognises a resident block
find_existing_buffer_never(bufs, block) == 0

find_existing_buffer(bufs, block) ==
    IF \E i \in Slots : bufs[i].block_id = {block}
    THEN CHOOSE i \in Slots :
            /\ bufs[i].block_id = {block}
            /\ \A j \in Slots : j < i => bufs[j].block_id # {block}
    ELSE 0

\* a choice of victim that does not look at the pin counts
choose_first_buffer(bufs) == 1

choose_last_unpinned_buffer(bufs) ==
    IF \E i \in Slots : ~is_pinned(bufs[i])
    THEN CHOOSE i \in Slots :
            /\ ~is_pinned(bufs[i])
            /\ \A j \in Slots : j > i => is_pinned(bufs[j])
    ELSE 0

choose_unpinned_buffer(bufs) ==
    IF \E i \in Slots : ~is_pinned(bufs[i])
    THEN CHOOSE i \in Slots :
            /\ ~is_pinned(bufs[i])
            /\ \A j \in Slots : j < i => is_pinned(bufs[j])
    ELSE 0

\* the miss branch of try_to_pin after assign_to_block returned a for slot u:
\* on Ok the buffer is pinned and available goes down
try_to_pin_assigned(u, bufs, avail, a) ==
    IF ~a.ok
    THEN [ok |-> FALSE, slot |-> 0, pool |-> [bufs EXCEPT ![u] = a.buf],
          available |-> avail, log |-> a.log, files |-> a.files,
          writes |-> a.writes, io |-> TRUE]
    ELSE [ok |-> TRUE, slot |-> u,
          pool |-> [bufs EXCEPT ![u] = buffer_pin(a.buf)],
          available |-> avail - 1, log |-> a.log, files |-> a.files,
          writes |-> a.writes, io |-> TRUE]

\* the two branches of try_to_pin that hold a buffer: e is the slot that
\* find_existing_buffer returned, u the one choose_unpinned_buffer returned
try_to_pin_hit_keeps_available(e, u, bufs, avail, block, lm, fs, failAt) ==
    IF e # 0
    THEN [ok |-> TRUE, slot |-> e,
          pool |-> [bufs EXCEPT ![e] = buffer_pin(bufs[e])],
          available |-> avail,
          log |-> lm, files |-> fs, writes |-> << >>, io |-> FALSE]
    ELSE IF u # 0
    THEN try_to_pin_assigned(u, bufs, avail,
                             assign_to_block(bufs[u], block, lm, fs, failAt))
    ELSE [ok |-> FALSE, slot |-> 0, pool |-> bufs, available |-> avail,
          log |-> lm, files |-> fs, writes |-> << >>, io |-> FALSE]

try_to_pin_with(e, u, bufs, avail, block, lm, fs, failAt) ==
    IF e # 0
    THEN [ok |-> TRUE, slot |-> e,
          pool |-> [bufs EXCEPT ![e] = buffer_pin(bufs[e])],
          available |-> IF ~is_pinned(bufs[e]) THEN avail - 1 ELSE avail,
          log |-> lm, files |-> fs, writes |-> << >>, io |-> FALSE]
    ELSE IF u # 0
    THEN try_to_pin_assigned(u, bufs, avail,
                             assign_to_block(bufs[u], block, lm, fs, failAt))
    ELSE [ok |-> FALSE, slot |-> 0, pool |-> bufs, available |-> avail,
          log |-> lm, files |-> fs, writes |-> << >>, io |-> FALSE]

try_to_pin(bufs, avail, block, lm, fs, failAt) ==
    LET e == find_existing_buffer(bufs, block)
        u == IF e # 0 THEN 0 ELSE choose_unpinned_buffer(bufs)
    IN try_to_pin_with(e, u, bufs, avail, block, lm, fs, failAt)

unpin(bufs, avail, i) ==
    LET b == buffer_unpin(bufs[i]) IN
    [pool |-> [bufs EXCEPT ![i] = b],
     available |-> IF ~is_pinned(b) THEN avail + 1 ELSE avail]

\* flush_all: the slots from i on, in pool order, stopping at the first error;
\* the environment's failure, if any, hits the flush of slot failSlot
RECURSIVE flush_from(_, _, _, _, _, _, _)
flush_from(i, bufs, txn, lm, fs, failAt, failSlot) ==
    IF i > NumBuffers THEN [ok |-> TRUE, log |-> lm, files |-> fs, writes |-> << >>]
    ELSE IF modifying_txn(bufs[i]) = txn
    THEN LET f == buffer_flush(bufs[i], lm, fs, IF i = failSlot THEN failAt ELSE "none") IN
         IF ~f.ok THEN f
         ELSE LET rest == flush_from(i + 1, bufs, txn, f.log, f.files, failAt, failSlot)
              IN [rest EXCEPT !.writes = f.writes \o rest.writes]
    ELSE flush_from(i + 1, bufs, txn, lm, fs, failAt, failSlot)

flush_all(bufs, txn, lm, fs, failAt, failSlot) ==
    flush_from(1, bufs, txn, lm, fs, failAt, failSlot)

---------------------------------------------------------------------------
(* The system: one SimpleDB, its clients, and the disk under it *)

Threads == 1..NumThreads

Main == 1

TxnIds == {0, 1}

\* the blocks clients pin: the data file's blocks and one block past its end
DataBlockNos == 0..NumBuffers

DataPage(k) == set_integer(with_size(BlockSize), 0, k + 1).page

\* a file that does not exist yet reads as a file of no blocks
InitFiles ==
    [log |-> << >>, data |-> [k \in 1..NumBuffers |-> DataPage(k - 1)],
     tbl |-> << >>]

\* the records clients append to the log; the last one leaves no room for
\* its length prefix below the header of an empty block
Records == { << >>, << 7 >>, << 8, 9 >>, << 1, 2, 3, 4, 5 >> }

IdleCall ==
    [op |-> "none", block |-> {}, slot |-> 0, time_left |-> 0, result |-> "none",
     io_failed |-> FALSE, victim |-> 0, hit |-> 0, during_wait |-> FALSE,
     has_buf |-> FALSE, has_log |-> FALSE, lsn |-> 0, txn |-> -1,
     it |-> << >>, yielded |-> << >>,
     offset |-> 0, arg |-> << >>, ret |-> << >>, page_before |-> << >>,
     before |-> [pool |-> << >>, available |-> 0, files |-> << >>, log |-> << >>]]

AllUnpinned(bufs) == \A i \in Slots : ~is_pinned(bufs[i])

FreshRun(bufs) == [valid |-> AllUnpinned(bufs), blocks |-> {}]

\* a SimpleDB just opened on a directory that holds the data file only
InitDb ==
    LET lm == LogManagerNew(InitFiles, "none") IN
    /\ files = lm.files
    /\ log = lm.log
    /\ pool = [i \in Slots |-> BufferNew]
    /\ available = NumBuffers
    /\ pc = [t \in Threads |-> "idle"]
    /\ call = [t \in Threads |-> IdleCall]
    /\ pool_lock = {}
    /\ buf_lock = [i \in Slots |-> 0]
    /\ handles = {}
    /\ calls = 0
    /\ faults = 0
    /\ appended = << >>
    /\ wal = << >>
    /\ pin_run = FreshRun([i \in Slots |-> BufferNew])

\* the directory of InitFiles, as FileManager::new left it
InitDir == [path |-> << "d", "b" >>, exists |-> TRUE, entries |-> {DataName, LogName}]

Init == InitDb /\ user_page = with_size(0) /\ root_dir = InitDir

\* the environment may fail the I/O call `failAt` of an operation when its
\* budget allows and the failure changes what the operation does
MayFail(failAt, changes) ==
    failAt = "none" \/ (faults < MaxFaults /\ changes)

Injected(failAt) == IF failAt = "none" THEN faults ELSE faults + 1

\* a BufferManager shared without mutual exclusion
PoolLockAlwaysFree(t) == TRUE

\* Mutex<BufferManager>::lock returns at once for thread t
PoolLockFree(t) == pool_lock = {}

LocksFree(t) == PoolLockFree(t) /\ \A i \in Slots : buf_lock[i] = 0

\* the threads holding the guard of SimpleDB's Mutex<LogManager>
LogLockHolders == {t \in Threads : call[t].has_log}

\* Mutex<LogManager>::lock returns at once
LogLockFree == LogLockHolders = {}

---------------------------------------------------------------------------
(* Calls on the LogManager (the caller holds the Mutex<LogManager>) *)

LogAppend(t, record, failAt, cap) ==
    LET r == append(log, files, record, failAt) IN
    /\ pc[t] = "idle"
    /\ log.latest_lsn < cap
    /\ MayFail(failAt, r # append(log, files, record, "none"))
    /\ log' = r.log
    /\ files' = r.files
    /\ appended' = IF r.ok THEN Append(appended, record) ELSE appended
    /\ faults' = Injected(failAt)
    /\ wal' = << >>
    /\ call' = [call EXCEPT ![t] =
                   [IdleCall EXCEPT !.op = "append",
                                    !.result = IF r.ok THEN "ok" ELSE "err",
                                    !.lsn = r.lsn,
                                    !.before = [pool |-> pool, available |-> available,
                                                files |-> files, log |-> log]]]
    /\ UNCHANGED << pool, available, pc, pool_lock, buf_lock, handles, pin_run >>

LogFlush(t, lsn, failAt) ==
    LET r == log_flush(log, files, lsn, failAt) IN
    /\ pc[t] = "idle"
    /\ MayFail(failAt, r # log_flush(log, files, lsn, "none"))
    /\ log' = r.log
    /\ files' = r.files
    /\ faults' = Injected(failAt)
    /\ wal' = << >>
    /\ call' = [call EXCEPT ![t] =
                   [IdleCall EXCEPT !.op = "flush",
                                    !.result = IF r.ok THEN "ok" ELSE "err",
                                    !.lsn = lsn,
                                    !.before = [pool |-> pool, available |-> available,
                                                files |-> files, log |-> log]]]
    /\ UNCHANGED << pool, available, pc, pool_lock, buf_lock, handles,
                    appended, pin_run >>

---------------------------------------------------------------------------
(* Calls on a Buffer through its handle (the caller holds the Mutex<Buffer>) *)

SetModified(t, i, txnum, lsn) ==
    /\ pc[t] = "idle"
    /\ i \in handles
    /\ buf_lock[i] = 0
    /\ pool' = [pool EXCEPT ![i] = set_modified(pool[i], txnum, lsn)]
    /\ wal' = << >>
    /\ call' = [call EXCEPT ![t] = [IdleCall EXCEPT !.op = "set_modified"]]
    /\ UNCHANGED << files, log, available, pc, pool_lock, buf_lock, handles,
                    faults, appended, pin_run >>

BufferFlush(t, i, failAt) ==
    LET r == buffer_flush(pool[i], log, files, failAt) IN
    /\ pc[t] = "idle"
    /\ i \in handles
    /\ buf_lock[i] = 0
    /\ MayFail(failAt, r # buffer_flush(pool[i], log, files, "none"))
    /\ log' = r.log
    /\ files' = r.files
    /\ wal' = r.writes
    /\ faults' = Injected(failAt)
    /\ call' = [call EXCEPT ![t] =
                   [IdleCall EXCEPT !.op = "buffer_flush", !.slot = i,
                                    !.result = IF r.ok THEN "ok" ELSE "err"]]
    /\ UNCHANGED << pool, available, pc, pool_lock, buf_lock, handles,
                    appended, pin_run >>

---------------------------------------------------------------------------
(* Calls on the BufferManager (the caller holds the Mutex<BufferManager>)   *)

\* pin, entered: the deadline is max_time from now
PinBegin(t, block) ==
    /\ pc[t] = "idle"
    /\ PoolLockFree(t)
    /\ pool_lock' = pool_lock \cup {t}
    /\ pc' = [pc EXCEPT ![t] = "pin_loop"]
    /\ call' = [call EXCEPT ![t] =
                   [IdleCall EXCEPT !.op = "pin", !.block = {block}, !.time_left = MaxTime,
                                    !.before = [pool |-> pool, available |-> available,
                                                 files |-> files, log |-> log]]]
    /\ wal' = << >>
    /\ UNCHANGED << files, log, pool, available, buf_lock, handles, faults,
                    appended, pin_run >>

\* the buffer locks one try_to_pin takes: find_existing_buffer locks the slots
\* in pool order up to the first hit, choose_unpinned_buffer likewise
ScannedSlots(bufs, block) ==
    LET e == find_existing_buffer(bufs, block)
    IN IF e # 0 THEN 1..e ELSE Slots

\* one turn of pin's loop before the deadline: try_to_pin, and on Err the
\* 10 ms sleep; `delay` is the time the attempt's I/O took beyond that
PinAttempt(t, failAt, delay) ==
    LET block == CHOOSE b \in call[t].block : TRUE
        r == try_to_pin(pool, available, block, log, files, failAt)
    IN
    /\ pc[t] = "pin_loop"
    /\ call[t].time_left > 0
    /\ \A i \in ScannedSlots(pool, block) : buf_lock[i] \in {0, t}
    /\ MayFail(failAt, r # try_to_pin(pool, available, block, log, files, "none"))
    /\ delay \in 0..(IF r.io THEN call[t].time_left - 1 ELSE 0)
    /\ pool' = r.pool
    /\ available' = r.available
    /\ log' = r.log
    /\ files' = r.files
    /\ wal' = r.writes
    /\ faults' = Injected(failAt)
    /\ IF r.ok
       THEN /\ pc' = [pc EXCEPT ![t] = "pin_ok"]
            /\ call' = [call EXCEPT ![t].result = "ok", ![t].slot = r.slot]
       ELSE /\ pc' = pc
            /\ call' = [call EXCEPT ![t].time_left = call[t].time_left - 1 - delay,
                                    ![t].io_failed = call[t].io_failed \/ r.io]
    /\ UNCHANGED << pool_lock, buf_lock, handles, appended, pin_run >>

\* the loop's condition fails: the deadline has passed
PinTimeout(t) ==
    /\ pc[t] = "pin_loop"
    /\ call[t].time_left = 0
    /\ pc' = [pc EXCEPT ![t] = "pin_timeout"]
    /\ call' = [call EXCEPT ![t].result = "timeout"]
    /\ wal' = << >>
    /\ UNCHANGED << files, log, pool, available, pool_lock, buf_lock, handles,
                    faults, appended, pin_run >>

\* pin returns to its caller, who drops the BufferManager guard
PinReturn(t) ==
    LET block == CHOOSE b \in call[t].block : TRUE
        got == call[t].result = "ok"
    IN
    /\ pc[t] \in {"pin_ok", "pin_timeout"}
    /\ pool_lock' = pool_lock \ {t}
    /\ pc' = [pc EXCEPT ![t] = "idle"]
    /\ call' = [call EXCEPT ![t] = [IdleCall EXCEPT !.has_log = call[t].has_log]]
    /\ handles' = IF got THEN handles \cup {call[t].slot} ELSE handles
    /\ pin_run' = IF got
                  THEN [valid |-> pin_run.valid /\ block \notin pin_run.blocks,
                        blocks |-> pin_run.blocks \cup {block}]
                  ELSE FreshRun(pool)
    /\ wal' = << >>
    /\ UNCHANGED << files, log, pool, available, buf_lock, faults, appended >>

\* unpin(buffer) by a caller holding both guards
Unpin(t, i) ==
    LET r == unpin(pool, available, i) IN
    /\ pc[t] = "idle"
    /\ LocksFree(t)
    /\ i \in handles
    /\ pool' = r.pool
    /\ available' = r.available
    /\ pin_run' = FreshRun(r.pool)
    /\ wal' = << >>
    /\ call' = [call EXCEPT ![t] =
                   [IdleCall EXCEPT !.op = "unpin", !.slot = i, !.result = "ok",
                                    !.before = [pool |-> pool, available |-> available,
                                                files |-> files, log |-> log]]]
    /\ UNCHANGED << files, log, pc, pool_lock, buf_lock, handles, faults, appended >>

FlushAll(t, txn, failAt, failSlot) ==
    LET r == flush_all(pool, txn, log, files, failAt, failSlot) IN
    /\ pc[t] = "idle"
    /\ LocksFree(t)
    /\ MayFail(failAt, r # flush_all(pool, txn, log, files, "none", failSlot))
    /\ (failAt = "none" => failSlot = 1)
    /\ log' = r.log
    /\ files' = r.files
    /\ wal' = r.writes
    /\ faults' = Injected(failAt)
    /\ call' = [call EXCEPT ![t] =
                   [IdleCall EXCEPT !.op = "flush_all",
                                    !.result = IF r.ok THEN "ok" ELSE "err",
                                    !.txn = txn,
                                    !.before = [pool |-> pool, available |-> available,
                                                files |-> files, log |-> log]]]
    /\ UNCHANGED << pool, available, pc, pool_lock, buf_lock, handles,
                    appended, pin_run >>

---------------------------------------------------------------------------
(* Spec: one client thread using the whole API, I/O failures included *)

AppendFailures == {"none", "flush_internal", "append_block", "write_new_block"}

FlushFailures == {"none", "flush_internal", "data_write"}

PinFailures == {"none", "flush_internal", "data_write", "read"}

\* in Spec the log carries one kind of record
PoolRecords == { << 7 >> }

\* a call a client begins, counted against the run's budget
Counted(A) == calls < MaxCalls /\ A /\ calls' = calls + 1 /\ UNCHANGED << user_page, root_dir >>

\* a further step of a call already begun
Continued(A) == A /\ UNCHANGED << calls, user_page, root_dir >>

Next ==
    \/ \E r \in PoolRecords, f \in AppendFailures :
           Counted(LogAppend(Main, r, f, PoolMaxLsn))
    \/ \E l \in 0..PoolMaxLsn, f \in {"none", "flush_internal"} :
           Counted(LogFlush(Main, l, f))
    \/ \E i \in Slots, x \in TxnIds, l \in {-1, log.latest_lsn} :
           Counted(SetModified(Main, i, x, l))
    \/ \E i \in Slots, f \in FlushFailures : Counted(BufferFlush(Main, i, f))
    \/ \E k \in DataBlockNos : Counted(PinBegin(Main, BlockId(DATA_FILE, k)))
    \/ \E f \in PinFailures, d \in 0..MaxTime : Continued(PinAttempt(Main, f, d))
    \/ Continued(PinTimeout(Main))
    \/ Continued(PinReturn(Main))
    \/ \E i \in Slots : Counted(Unpin(Main, i))
    \/ \E x \in TxnIds, f \in FlushFailures, i \in Slots :
           Counted(FlushAll(Main, x, f, i))

Spec == Init /\ [][Next]_vars

---------------------------------------------------------------------------
(* SpecConc: several threads sharing the Arc<Mutex<BufferManager>> and the  *)
(* Arc<Mutex<Buffer>> handles.  A thread locks the BufferManager to call    *)
(* pin (which keeps &mut self, hence the guard, until it returns); to call  *)
(* unpin(&mut Buffer) it needs the BufferManager's guard and the buffer's,  *)
(* taken in either order.  try_to_pin is taken in its two steps: the scans  *)
(* that pick a slot, and the work on the slot picked.                       *)

AllPinned(bufs) == \A i \in Slots : is_pinned(bufs[i])

\* thread t is inside pin, has failed an attempt, and its deadline is ahead
Waiting(t) ==
    /\ pc[t] = "pin_loop"
    /\ call[t].time_left > 0
    /\ call[t].time_left < MaxTime
    /\ AllPinned(pool)

PinRequest(t, block) ==
    /\ pc[t] = "idle"
    /\ pc' = [pc EXCEPT ![t] = "pin_wait_pool"]
    /\ call' = [call EXCEPT ![t] = [IdleCall EXCEPT !.op = "pin", !.block = {block},
                                                   !.has_log = call[t].has_log]]
    /\ wal' = << >>
    /\ UNCHANGED << files, log, pool, available, pool_lock, buf_lock, handles, faults,
                    appended, pin_run >>

PinAcquire(t) ==
    /\ pc[t] = "pin_wait_pool"
    /\ PoolLockFree(t)
    /\ pool_lock' = pool_lock \cup {t}
    /\ pc' = [pc EXCEPT ![t] = "pin_loop"]
    /\ call' = [call EXCEPT ![t].time_left = MaxTime,
                            ![t].before = [pool |-> pool, available |-> available,
                                           files |-> files, log |-> log]]
    /\ wal' = << >>
    /\ UNCHANGED << files, log, pool, available, buf_lock, handles, faults,
                    appended, pin_run >>

\* find_existing_buffer and choose_unpinned_buffer of one try_to_pin; with no
\* slot to take, try_to_pin returns Err and pin sleeps
PinScan(t) ==
    LET block == CHOOSE b \in call[t].block : TRUE
        e == find_existing_buffer(pool, block)
        u == IF e # 0 THEN 0 ELSE choose_unpinned_buffer(pool)
    IN
    /\ pc[t] = "pin_loop"
    /\ call[t].time_left > 0
    /\ \A i \in ScannedSlots(pool, block) : buf_lock[i] \in {0, t}
    /\ IF e = 0 /\ u = 0
       THEN /\ pc' = pc
            /\ call' = [call EXCEPT ![t].time_left = call[t].time_left - 1]
       ELSE /\ pc' = [pc EXCEPT ![t] = "pin_chosen"]
            /\ call' = [call EXCEPT ![t].hit = e, ![t].victim = u]
    /\ wal' = << >>
    /\ UNCHANGED << files, log, pool, available, pool_lock, buf_lock, handles, faults,
                    appended, pin_run >>

\* the assign_to_block that thread t is about to make flushes a dirty victim:
\* Buffer::flush locks the LogManager
FlushLocksLog(t) ==
    /\ pc[t] = "pin_chosen"
    /\ call[t].hit = 0
    /\ call[t].victim # 0
    /\ pool[call[t].victim].txnum >= 0

\* the rest of try_to_pin on the slot picked
PinCommit(t, failAt, delay) ==
    LET block == CHOOSE b \in call[t].block : TRUE
        r == try_to_pin_with(call[t].hit, call[t].victim, pool, available, block,
                             log, files, failAt)
    IN
    /\ pc[t] = "pin_chosen"
    /\ buf_lock[MaxOf(call[t].hit, call[t].victim)] \in {0, t}
    /\ FlushLocksLog(t) => LogLockFree
    /\ MayFail(failAt, r # try_to_pin_with(call[t].hit, call[t].victim, pool, available,
                                           block, log, files, "none"))
    /\ delay \in 0..(IF r.io THEN call[t].time_left - 1 ELSE 0)
    /\ pool' = r.pool
    /\ available' = r.available
    /\ log' = r.log
    /\ files' = r.files
    /\ wal' = r.writes
    /\ faults' = Injected(failAt)
    /\ IF r.ok
       THEN /\ pc' = [pc EXCEPT ![t] = "pin_ok"]
            /\ call' = [call EXCEPT ![t].result = "ok", ![t].slot = r.slot]
       ELSE /\ pc' = [pc EXCEPT ![t] = "pin_loop"]
            /\ call' = [call EXCEPT ![t].time_left = call[t].time_left - 1 - delay,
                                    ![t].io_failed = TRUE,
                                    ![t].hit = 0, ![t].victim = 0]
    /\ UNCHANGED << pool_lock, buf_lock, handles, appended, pin_run >>

\* the caller of unpin asks for the BufferManager's guard, with or without
\* the buffer's guard already in hand
UnpinStart(t, i, bufFirst) ==
    /\ pc[t] = "idle"
    /\ i \in handles
    /\ bufFirst => buf_lock[i] = 0
    /\ buf_lock' = IF bufFirst THEN [buf_lock EXCEPT ![i] = t] ELSE buf_lock
    /\ pc' = [pc EXCEPT ![t] = "unpin_wait_pool"]
    /\ call' = [call EXCEPT ![t] =
                   [IdleCall EXCEPT !.op = "unpin", !.slot = i, !.has_buf = bufFirst,
                                    !.during_wait = \E w \in Threads : Waiting(w)]]
    /\ wal' = << >>
    /\ UNCHANGED << files, log, pool, available, pool_lock, handles, faults,
                    appended, pin_run >>

\* it gets the BufferManager's guard; with the buffer's guard in hand it
\* calls unpin and drops both
UnpinAcquire(t) ==
    LET r == unpin(pool, available, call[t].slot) IN
    /\ pc[t] = "unpin_wait_pool"
    /\ PoolLockFree(t)
    /\ IF call[t].has_buf
       THEN /\ pool' = r.pool
            /\ available' = r.available
            /\ pin_run' = FreshRun(r.pool)
            /\ buf_lock' = [buf_lock EXCEPT ![call[t].slot] = 0]
            /\ pc' = [pc EXCEPT ![t] = "idle"]
            /\ call' = [call EXCEPT ![t] = IdleCall]
            /\ UNCHANGED pool_lock
       ELSE /\ pool_lock' = pool_lock \cup {t}
            /\ pc' = [pc EXCEPT ![t] = "unpin_wait_buf"]
            /\ UNCHANGED << pool, available, pin_run, buf_lock, call >>
    /\ wal' = << >>
    /\ UNCHANGED << files, log, handles, faults, appended >>

\* holding the BufferManager's guard it gets the buffer's, calls unpin and
\* drops both
UnpinFinish(t) ==
    LET r == unpin(pool, available, call[t].slot) IN
    /\ pc[t] = "unpin_wait_buf"
    /\ buf_lock[call[t].slot] = 0
    /\ pool' = r.pool
    /\ available' = r.available
    /\ pin_run' = FreshRun(r.pool)
    /\ pool_lock' = pool_lock \ {t}
    /\ pc' = [pc EXCEPT ![t] = "idle"]
    /\ call' = [call EXCEPT ![t] = IdleCall]
    /\ wal' = << >>
    /\ UNCHANGED << files, log, buf_lock, handles, faults, appended >>

NextConc ==
    \E t \in Threads :
        \/ \E k \in DataBlockNos : Counted(PinRequest(t, BlockId(DATA_FILE, k)))
        \/ Continued(PinAcquire(t))
        \/ Continued(PinScan(t))
        \/ \E f \in {"none", "read"}, d \in 0..MaxTime : Continued(PinCommit(t, f, d))
        \/ Continued(PinTimeout(t))
        \/ Continued(PinReturn(t))
        \/ \E i \in Slots, b \in BOOLEAN : Counted(UnpinStart(t, i, b))
        \/ Continued(UnpinAcquire(t))
        \/ Continued(UnpinFinish(t))

SpecConc == Init /\ [][NextConc]_vars

---------------------------------------------------------------------------
(* SpecLocks: the threads of SpecConc with dirty buffers in the pool and    *)
(* with clients that lock the Mutex<LogManager> (SimpleDB::log_manager) to  *)
(* append.                                                                  *)

\* a client takes the guard of the Mutex<LogManager>
LogLock(t) ==
    /\ pc[t] = "idle"
    /\ ~call[t].has_log
    /\ LogLockFree
    /\ call' = [call EXCEPT ![t] = [IdleCall EXCEPT !.has_log = TRUE]]
    /\ wal' = << >>
    /\ UNCHANGED << files, log, pool, available, pc, pool_lock, buf_lock, handles,
                    faults, appended, pin_run >>

\* holding the guard it appends a record and drops the guard
LogAppendLocked(t, record) ==
    /\ call[t].has_log
    /\ LogAppend(t, record, "none", PoolMaxLsn)

NextLocks ==
    \E t \in Threads :
        \/ \E k \in DataBlockNos : Counted(PinRequest(t, BlockId(DATA_FILE, k)))
        \/ Continued(PinAcquire(t))
        \/ Continued(PinScan(t))
        \/ Continued(PinCommit(t, "none", 0))
        \/ Continued(PinTimeout(t))
        \/ Continued(PinReturn(t))
        \/ \E i \in Slots :
               Counted(~call[t].has_log /\ SetModified(t, i, 0, log.latest_lsn))
        \/ \E i \in Slots : Counted(~call[t].has_log /\ Unpin(t, i))
        \/ Counted(LogLock(t))
        \/ \E r \in PoolRecords : Continued(LogAppendLocked(t, r))

SpecLocks == Init /\ [][NextLocks]_vars

---------------------------------------------------------------------------
(* SpecLog: one client of the LogManager alone, I/O failures included; the  *)
(* client scans the log with the iterator of LogManager::iter                *)

\* `let it = log_manager.iter()?`
IterOpen(t) ==
    LET r == iter_new(files, log.current_block, FALSE) IN
    /\ pc[t] = "idle"
    /\ pc' = [pc EXCEPT ![t] = IF r.ok THEN "iter" ELSE "idle"]
    /\ call' = [call EXCEPT ![t] =
                   [IdleCall EXCEPT !.op = "iter", !.it = r.it,
                                    !.result = IF r.ok THEN "ok" ELSE "err"]]
    /\ wal' = << >>
    /\ UNCHANGED << files, log, pool, available, pool_lock, buf_lock, handles,
                    faults, appended, pin_run >>

\* `it.next()`: Some(record), or None, after which the client drops the
\* iterator; `fail` makes the read of the next block fail
IterNext(t, fail) ==
    LET n == iter_next(files, call[t].it, fail) IN
    /\ pc[t] = "iter"
    /\ MayFail(IF fail THEN "read" ELSE "none",
               n # iter_next(files, call[t].it, FALSE))
    /\ faults' = IF fail THEN faults + 1 ELSE faults
    /\ pc' = [pc EXCEPT ![t] = IF n.some THEN "iter" ELSE "idle"]
    /\ call' = [call EXCEPT ![t].it = n.it,
                            ![t].yielded = n.rec,
                            ![t].result = IF n.some THEN "some" ELSE "end"]
    /\ wal' = << >>
    /\ UNCHANGED << files, log, pool, available, pool_lock, buf_lock, handles,
                    appended, pin_run >>

NextLog ==
    \/ \E r \in Records, f \in AppendFailures : Continued(LogAppend(Main, r, f, MaxLsn))
    \/ \E l \in 0..MaxLsn, f \in {"none", "flush_internal"} : Continued(LogFlush(Main, l, f))
    \/ Continued(IterOpen(Main))
    \/ \E f \in BOOLEAN : Continued(IterNext(Main, f))

SpecLog == Init /\ [][NextLog]_vars

---------------------------------------------------------------------------
(* SpecRestart: the client of SpecLog, whose LogManager is dropped once     *)
(* (or whose process stops) and constructed again on the same log file.    *)
(* LogManager has no Drop, so the tail page in memory is not written; a    *)
(* stop in the middle of an append leaves the disk as a failed append does. *)

\* `LogManager::new(file_manager, log_file)` on the files a previous instance
\* left; `appended` keeps the records that instance had saved
Restart(t) ==
    LET r == LogManagerNew(files, "none") IN
    /\ pc[t] = "idle"
    /\ calls = 0
    /\ calls' = 1
    /\ log' = r.log
    /\ files' = r.files
    /\ appended' = SubSeq(appended, 1, log.latest_saved_lsn)
    /\ wal' = << >>
    /\ call' = [call EXCEPT ![t] =
                   [IdleCall EXCEPT !.op = "restart",
                                    !.result = IF r.ok THEN "ok" ELSE "err",
                                    !.before = [pool |-> pool, available |-> available,
                                                files |-> files, log |-> log]]]
    /\ UNCHANGED << pool, available, pc, pool_lock, buf_lock, handles, faults,
                    pin_run, user_page, root_dir >>

\* the appends the client makes: MaxLsn - 1 through the first instance, one
\* through the second
RestartCap == IF calls = 0 THEN MaxLsn - 1 ELSE 1

NextRestart ==
    \/ \E r \in Records, f \in AppendFailures : Continued(LogAppend(Main, r, f, RestartCap))
    \/ \E l \in 0..MaxLsn, f \in {"none", "flush_internal"} : Continued(LogFlush(Main, l, f))
    \/ Continued(IterOpen(Main))
    \/ \E f \in BOOLEAN : Continued(IterNext(Main, f))
    \/ Restart(Main)

SpecRestart == Init /\ [][NextRestart]_vars

---------------------------------------------------------------------------
(* SpecPage: a client that makes a Page with Page::with_size and calls its  *)
(* accessors with offsets from both ends of the usize range.  A call that   *)
(* panics ends the client.                                                  *)

Offsets == (0..(MaxPageLen + 1)) \cup {UsizeRange - 4, UsizeRange - 1}
IntValues == {-1, 0, 2, 258}
Payloads == { << >>, << 255 >>, << 8, 9 >> }
Strings == { << >>, << 97 >>, << 233 >> }     \* "", "a", "\u{e9}"

InitPage ==
    /\ InitDb
    /\ user_page \in {with_size(n) : n \in 0..MaxPageLen}
    /\ root_dir = InitDir

\* what the client sees of a call, and the Page it leaves
PageCalled(t, op, offset, arg, r, after) ==
    /\ pc[t] = "idle"
    /\ calls < MaxPageCalls
    /\ calls' = calls + 1
    /\ pc' = [pc EXCEPT ![t] = IF r.err = "panic" THEN "panicked" ELSE "idle"]
    /\ call' = [call EXCEPT ![t] =
                   [IdleCall EXCEPT !.op = op, !.offset = offset, !.arg = arg,
                                    !.ret = r, !.page_before = user_page]]
    /\ user_page' = after
    /\ UNCHANGED << files, log, pool, available, pool_lock, buf_lock, handles,
                    faults, appended, wal, pin_run, root_dir >>

CallGetInteger(t, checks, offset) ==
    PageCalled(t, "get_integer", offset, << >>,
               PageGetInteger(checks, user_page, offset), user_page)

CallSetInteger(t, checks, offset, value) ==
    PageCalled(t, "set_integer", offset, value,
               PageSetInteger(checks, user_page, offset, value),
               PageSetInteger(checks, user_page, offset, value).page)

CallGetBytes(t, checks, offset) ==
    PageCalled(t, "get_bytes", offset, << >>,
               PageGetBytes(checks, user_page, offset), user_page)

CallSetBytes(t, checks, offset, bytes) ==
    PageCalled(t, "set_bytes", offset, bytes,
               PageSetBytes(checks, user_page, offset, bytes),
               PageSetBytes(checks, user_page, offset, bytes).page)

CallGetString(t, checks, offset) ==
    PageCalled(t, "get_string", offset, << >>,
               PageGetString(checks, user_page, offset), user_page)

CallSetString(t, checks, offset, str) ==
    PageCalled(t, "set_string", offset, str,
               PageSetString(checks, user_page, offset, str),
               PageSetString(checks, user_page, offset, str).page)

NextPage ==
    \E checks \in BOOLEAN, o \in Offsets :
        \/ CallGetInteger(Main, checks, o)
        \/ \E v \in IntValues : CallSetInteger(Main, checks, o, v)
        \/ CallGetBytes(Main, checks, o)
        \/ \E b \in Payloads : CallSetBytes(Main, checks, o, b)
        \/ CallGetString(Main, checks, o)
        \/ \E str \in Strings : CallSetString(Main, checks, o, str)

SpecPage == InitPage /\ [][NextPage]_vars

---------------------------------------------------------------------------
(* SpecFile: one client of the FileManager growing and writing a file of    *)
(* its own, I/O failures included                                           *)

FileFailures == {"none", "size", "write"}

\* `file_manager.append_block(path)`
FileAppendBlock(t, failAt) ==
    LET r == FmAppendBlock(files, TABLE_FILE, failAt = "size", failAt = "write") IN
    /\ pc[t] = "idle"
    /\ MayFail(failAt, r # FmAppendBlock(files, TABLE_FILE, FALSE, FALSE))
    /\ files' = r.files
    /\ faults' = Injected(failAt)
    /\ call' = [call EXCEPT ![t] =
                   [IdleCall EXCEPT !.op = "append_block",
                                    !.block = {r.blk},
                                    !.result = IF r.ok THEN "ok" ELSE "err",
                                    !.before = [pool |-> pool, available |-> available,
                                                files |-> files, log |-> log]]]
    /\ UNCHANGED << log, pool, available, pc, pool_lock, buf_lock, handles,
                    appended, wal, pin_run >>

\* `file_manager.write(&BlockId::new(path, k), &page)` on a block of the file
FileWrite(t, k) ==
    LET w == FmWrite(files, BlockId(TABLE_FILE, k), DataPage(k), FALSE) IN
    /\ pc[t] = "idle"
    /\ k < Len(files[TABLE_FILE])
    /\ files' = w.files
    /\ call' = [call EXCEPT ![t] =
                   [IdleCall EXCEPT !.op = "write",
                                    !.block = {BlockId(TABLE_FILE, k)},
                                    !.result = "ok",
                                    !.before = [pool |-> pool, available |-> available,
                                                files |-> files, log |-> log]]]
    /\ UNCHANGED << log, pool, available, pc, pool_lock, buf_lock, handles,
                    faults, appended, wal, pin_run >>

\* `file_manager.size(path)`
FileSize(t, fail) ==
    /\ pc[t] = "idle"
    /\ MayFail(IF fail THEN "size" ELSE "none", Len(files[TABLE_FILE]) > 0)
    /\ faults' = IF fail THEN faults + 1 ELSE faults
    /\ call' = [call EXCEPT ![t] =
                   [IdleCall EXCEPT !.op = "size",
                                    !.ret = FmSize(files, TABLE_FILE, fail),
                                    !.result = "ok",
                                    !.before = [pool |-> pool, available |-> available,
                                                files |-> files, log |-> log]]]
    /\ UNCHANGED << files, log, pool, available, pc, pool_lock, buf_lock, handles,
                    appended, wal, pin_run >>

NextFile ==
    \/ \E f \in FileFailures : Counted(FileAppendBlock(Main, f))
    \/ \E k \in 0..MaxCalls : Counted(FileWrite(Main, k))
    \/ \E f \in BOOLEAN : Counted(FileSize(Main, f))

SpecFile == Init /\ [][NextFile]_vars

---------------------------------------------------------------------------
(* SpecFileConc: the threads of the program calling append_block and      *)
(* write on one file through one FileManager.  append_block holds no lock  *)
(* from its call of size() to its call of write(): the open_files mutex is *)
(* held inside get_file only.  `appended` records the BlockIds that        *)
(* append_block has returned, in the order of the returns.                 *)

\* append_block, first half: `BlockId::new(path.to_path_buf(), self.size(path))`
AppendBlockSize(t) ==
    /\ pc[t] = "idle"
    /\ pc' = [pc EXCEPT ![t] = "append_write"]
    /\ call' = [call EXCEPT ![t] =
                   [IdleCall EXCEPT !.op = "append_block",
                                    !.block = {BlockId(TABLE_FILE,
                                                       FmSize(files, TABLE_FILE, FALSE))}]]
    /\ UNCHANGED << files, log, pool, available, pool_lock, buf_lock, handles,
                    faults, appended, wal, pin_run >>

\* append_block, second half: `self.write(&new_block_id, &Page::with_size(..))?`
\* and the return of new_block_id
AppendBlockWrite(t) ==
    LET new_block_id == CHOOSE b \in call[t].block : TRUE
        w == FmWrite(files, new_block_id, with_size(BlockSize), FALSE)
    IN /\ pc[t] = "append_write"
       /\ files' = w.files
       /\ pc' = [pc EXCEPT ![t] = "idle"]
       /\ call' = [call EXCEPT ![t].result = "ok"]
       /\ appended' = Append(appended, new_block_id)
       /\ UNCHANGED << log, pool, available, pool_lock, buf_lock, handles,
                       faults, wal, pin_run >>

NextFileConc ==
    \E t \in Threads :
        \/ Counted(AppendBlockSize(t))
        \/ Continued(AppendBlockWrite(t))
        \/ \E k \in {0, 1} : Continued(FileWrite(t, k))

SpecFileConc == Init /\ [][NextFileConc]_vars

---------------------------------------------------------------------------
(* SpecDir: FileManager::new called on directories that hold files of      *)
(* various names, under various paths                                       *)

RootPaths ==
    { << "d", "b" >>,
      << "/", "v", "a", "r", "/", "d", "b" >>,
      << "t", "e", "m", "p", "d", "b" >> }

FileNames ==
    { DataName,
      LogName,
      << "t", "e", "m", "p" >>,
      << "t", "e", "m", "p", "1" >>,
      << "a", "t", "e", "m", "p" >> }

InitRoot ==
    /\ InitDb
    /\ user_page = with_size(0)
    /\ \E path \in RootPaths :
          \/ root_dir = [path |-> path, exists |-> FALSE, entries |-> {}]
          \/ \E names \in SUBSET FileNames :
                root_dir = [path |-> path, exists |-> TRUE, entries |-> names]

\* `FileManager::new(path, block_size)`
OpenFileManager(t) ==
    /\ pc[t] = "idle"
    /\ calls < MaxCalls
    /\ calls' = calls + 1
    /\ root_dir' = FileManagerNew(root_dir)
    /\ call' = [call EXCEPT ![t] =
                   [IdleCall EXCEPT !.op = "new", !.result = "ok", !.arg = root_dir]]
    /\ UNCHANGED << files, log, pool, available, pc, pool_lock, buf_lock, handles,
                    faults, appended, wal, pin_run, user_page >>

NextDir == OpenFileManager(Main)

SpecDir == InitRoot /\ [][NextDir]_vars

---------------------------------------------------------------------------
(* Claims about the log *)

\* the records a scan of the log started now yields, newest first
Scanned == log_iter(log, files)

\* the records whose LSN is at most l, newest first
UpTo(l) == SeqReverse(SubSeq(appended, 1, l))

\* C2: after appending R1..Rn to a fresh log, an iterator from iter() yields
\* exactly Rn, ..., R1 and then end-of-sequence
C2_IterYieldsAllAppended == Scanned = SeqReverse(appended)

\* C10: every record with LSN <= latest_saved_lsn is on disk, where a scan
\* started afterwards yields it (the oldest records come last in a scan)
C10_SavedRecordsOnDisk == SeqIsSuffix(UpTo(log.latest_saved_lsn), Scanned)

\* the append that thread t has just completed found too little room in the
\* tail block for its record
RolledOver(t) ==
    /\ call[t].op = "append"
    /\ call[t].result = "ok"
    /\ AsUsize(get_integer(call[t].before.log.log_page, 0).val)
           < I32Size + (Len(appended[Len(appended)]) + I32Size)

\* the records packed into one page, newest first
PageRecords(page) == log_iter([current_block |-> BlockId(LOG_FILE, 0)], [log |-> << page >>])

\* the records a scan yields once the tail page has been flushed
ScannedAfterFlush == log_iter(log, flush_internal(log, files, "none").files)

\* C11: an append that rolls over leaves the old tail page on disk in its
\* block, makes the newly allocated block the tail with the new record as
\* its only record, and loses no earlier record
C11_RolloverKeepsRecords ==
    \A t \in Threads :
        RolledOver(t) =>
            LET old == call[t].before.log IN
            /\ files[LOG_FILE][old.current_block.block_no + 1] = old.log_page
            /\ Len(files[LOG_FILE]) = Len(call[t].before.files[LOG_FILE]) + 1
            /\ log.current_block = BlockId(LOG_FILE, Len(files[LOG_FILE]) - 1)
            /\ PageRecords(log.log_page) = << appended[Len(appended)] >>
            /\ ScannedAfterFlush = SeqReverse(appended)

\* C12: latest_lsn is the number of successful appends so far; a successful
\* append returns the old latest_lsn plus 1, a failed one leaves it alone
C12_LsnCountsAppends ==
    /\ log.latest_lsn = Len(appended)
    /\ \A t \in Threads :
        call[t].op = "append" =>
            IF call[t].result = "ok"
            THEN /\ call[t].lsn = call[t].before.log.latest_lsn + 1
                 /\ log.latest_lsn = call[t].lsn
            ELSE log.latest_lsn = call[t].before.log.latest_lsn

\* an append has failed on a log that already holds records
C12_Witness ==
    /\ call[Main].op = "append"
    /\ call[Main].result = "err"
    /\ Len(appended) >= 2

\* C13: latest_saved_lsn never exceeds latest_lsn
C13_SavedLsnAtMostLatest == log.latest_saved_lsn <= log.latest_lsn

\* after a rollover the log holds flushed records and an unflushed one
C13_Witness ==
    /\ log.current_block.block_no >= 1
    /\ log.latest_saved_lsn >= 1
    /\ log.latest_saved_lsn < log.latest_lsn

\* C14: flush(lsn) below latest_saved_lsn changes neither the disk nor the
\* LogManager; otherwise it puts the tail page into the tail block on disk
\* and sets latest_saved_lsn to latest_lsn, and changes nothing else
C14_FlushFrame ==
    \A t \in Threads :
        (call[t].op = "flush" /\ call[t].result = "ok") =>
            LET old == call[t].before.log
                was == call[t].before.files
            IN IF call[t].lsn < old.latest_saved_lsn
               THEN log = old /\ files = was
               ELSE /\ log = [old EXCEPT !.latest_saved_lsn = old.latest_lsn]
                    /\ files = [was EXCEPT ![LOG_FILE][old.current_block.block_no + 1] =
                                               old.log_page]

\* a flush below latest_saved_lsn was made while the tail held an unflushed
\* record
C14_Witness ==
    /\ call[Main].op = "flush"
    /\ call[Main].result = "ok"
    /\ call[Main].lsn < call[Main].before.log.latest_saved_lsn
    /\ call[Main].before.log.latest_saved_lsn < call[Main].before.log.latest_lsn

\* the outcome the iterator's state machine prescribes for next() in state
\* it: end-of-sequence at block_size in block 0; at block_size in block k > 0
\* block k-1 is loaded and the machine goes on at its boundary; elsewhere the
\* record at the position is yielded and the position moves past it ("stuck"
\* where no record can be read there)
RECURSIVE Machine(_, _)
Machine(fs, it) ==
    IF it.current_position = BlockSize /\ it.blk.block_no = 0
    THEN [out |-> "end", rec |-> << >>, block_no |-> 0, position |-> BlockSize]
    ELSE IF it.current_position = BlockSize
    THEN LET page == fs[it.blk.path][it.blk.block_no] IN
         Machine(fs, [it EXCEPT !.blk = BlockId(it.blk.path, it.blk.block_no - 1),
                                !.page = page,
                                !.current_position = AsUsize(get_integer(page, 0).val)])
    ELSE LET r == get_bytes(it.page, it.current_position) IN
         IF r.ok
         THEN [out |-> "some", rec |-> r.val, block_no |-> it.blk.block_no,
               position |-> it.current_position + I32Size + Len(r.val)]
         ELSE [out |-> "stuck", rec |-> << >>, block_no |-> it.blk.block_no,
               position |-> it.current_position]

\* C20: every next() of a scan does what the state machine prescribes, and a
\* next() that yields a record moves to a lower block or to a higher position
\* in the same block (so a scan ends after finitely many calls and visits
\* the blocks in descending order, each once)
C20_IteratorStateMachine ==
    [][\A t \in Threads :
          pc[t] = "iter" =>
              LET m == Machine(files, call[t].it)
                  was == call[t].it
                  now == call'[t].it
              IN /\ m.out = (IF pc'[t] = "iter" THEN "some" ELSE "end")
                 /\ pc'[t] = "iter" =>
                       /\ call'[t].yielded = m.rec
                       /\ now.blk.block_no = m.block_no
                       /\ now.current_position = m.position
                       /\ \/ now.blk.block_no < was.blk.block_no
                          \/ /\ now.blk.block_no = was.blk.block_no
                             /\ now.current_position > was.current_position]_vars

\* C21: a successful append of a record of length L into a tail page with
\* boundary b (BlockSize after a rollover) leaves the record, length prefix
\* first, at offset b - 4 - L, moves the boundary there and keeps the bytes
\* from b on; the block a rollover allocates has boundary BlockSize on disk
C21_AppendPlacesRecord ==
    \A t \in Threads :
        (call[t].op = "append" /\ call[t].result = "ok") =>
            LET old == call[t].before.log
                record == appended[Len(appended)]
                b == IF RolledOver(t) THEN BlockSize
                     ELSE AsUsize(get_integer(old.log_page, 0).val)
                pos == b - I32Size - Len(record)
            IN /\ get_integer(log.log_page, 0) = Ok(pos)
               /\ get_bytes(log.log_page, pos) = Ok(record)
               /\ ~RolledOver(t) =>
                     \A i \in (b + 1)..BlockSize : log.log_page[i] = old.log_page[i]
               /\ RolledOver(t) =>
                     get_integer(files[LOG_FILE][log.current_block.block_no + 1], 0)
                         = Ok(BlockSize)

---------------------------------------------------------------------------
(* Claims about the Page (SpecPage) *)

PageSetters == {"set_integer", "set_bytes", "set_string"}

\* the bytes a setter call stores after the 4-byte word at its offset
PayloadOf(c) ==
    IF c.op = "set_bytes" THEN c.arg
    ELSE IF c.op = "set_string" THEN as_bytes(c.arg)
    ELSE << >>

\* C22: a setter call either succeeds with its value stored, or returns
\* OutOfBounds (exactly when offset + 4 exceeds the page length) or
\* SizeExceeded (requested = offset + 4 + payload length, available = page
\* length) with every byte as before; the page keeps its length
C22_SettersStoreOrLeaveUnchanged ==
    \A t \in Threads :
        call[t].op \in PageSetters =>
            LET c == call[t]
                was == c.page_before
                payload == PayloadOf(c)
            IN /\ Len(user_page) = Len(was)
               /\ IF c.ret.ok
                  THEN /\ c.offset + I32Size + Len(payload) <= Len(was)
                       /\ SubSeq(user_page, c.offset + 1, c.offset + I32Size)
                              = to_be_bytes(IF c.op = "set_integer" THEN c.arg
                                            ELSE Len(payload))
                       /\ SubSeq(user_page, c.offset + I32Size + 1,
                                 c.offset + I32Size + Len(payload)) = payload
                  ELSE /\ user_page = was
                       /\ \/ /\ c.ret.err = "OutOfBounds"
                             /\ c.offset + I32Size > Len(was)
                          \/ /\ c.ret.err = "SizeExceeded"
                             /\ c.offset + I32Size <= Len(was)
                             /\ c.ret.requested = c.offset + I32Size + Len(payload)
                             /\ c.ret.requested > Len(was)
                             /\ c.ret.available = Len(was)

\* C25: get_integer and set_integer called with an offset o such that
\* o + 4 exceeds the page length return OutOfBounds and leave the page alone
C25_IntegerOutOfBounds ==
    \A t \in Threads :
        (/\ call[t].op \in {"get_integer", "set_integer"}
         /\ call[t].offset + I32Size > Len(call[t].page_before)) =>
            /\ ~call[t].ret.ok
            /\ call[t].ret.err = "OutOfBounds"
            /\ user_page = call[t].page_before

\* the getter that reads what a setter wrote
GetterOf(op) ==
    IF op = "set_integer" THEN "get_integer"
    ELSE IF op = "set_bytes" THEN "get_bytes"
    ELSE "get_string"

\* C23: a getter called at the offset where the call before it stored a
\* value returns that value: the i32 (kept as 4 bytes, most significant
\* first), the byte string or the string
C23_SetThenGetRoundTrip ==
    [][\A t \in Threads :
          (/\ call[t].op \in PageSetters
           /\ call[t].ret.ok
           /\ call'[t].op = GetterOf(call[t].op)
           /\ call'[t].offset = call[t].offset) =>
              /\ call'[t].ret = Ok(call[t].arg)
              /\ call[t].op = "set_integer" =>
                    LET o == call[t].offset
                        v == call[t].arg
                    IN /\ user_page[o + 4] = v % 256
                       /\ user_page[o + 3] = (v \div 256) % 256
                       /\ user_page[o + 1] = (IF v < 0 THEN 255 ELSE 0)]_vars

\* a byte string that fills the page from its offset to the end was read
\* back, in the call that followed the one that stored it
C23_Witness ==
    /\ call[Main].op = "get_bytes"
    /\ call[Main].ret = Ok(<< 255 >>)
    /\ call[Main].offset + I32Size + 1 = Len(user_page)
    /\ call[Main].offset > 0
    /\ calls = 2

\* the i32 held by the 4 bytes at offset o of a page
StoredLength(content, o) ==
    (IF content[o + 1] >= 128 THEN content[o + 1] - 256 ELSE content[o + 1]) * 16777216
        + content[o + 2] * 65536 + content[o + 3] * 256 + content[o + 4]

\* C24: get_bytes and get_string at an offset whose 4 bytes hold a negative
\* length, or a length that reaches past the end of the page, return
\* InvalidData (no panic, no bytes)
C24_BadStoredLengthIsInvalidData ==
    \A t \in Threads :
        (/\ call[t].op \in {"get_bytes", "get_string"}
         /\ call[t].offset + I32Size <= Len(user_page)
         /\ \/ StoredLength(user_page, call[t].offset) < 0
            \/ call[t].offset + I32Size + StoredLength(user_page, call[t].offset)
                  > Len(user_page)) =>
            /\ ~call[t].ret.ok
            /\ call[t].ret.err = "InvalidData"

\* get_string met a negative length that a set_integer had stored
C24_Witness ==
    /\ call[Main].op = "get_string"
    /\ call[Main].offset > 0
    /\ call[Main].offset + I32Size <= Len(user_page)
    /\ StoredLength(user_page, call[Main].offset) = -1
    /\ call[Main].ret.err = "InvalidData"

\* the bytes of a page from position pos to its end are length-prefixed
\* records, the last of which ends with the page
RECURSIVE RecordsFrom(_, _)
RecordsFrom(content, pos) ==
    IF pos = Len(content) THEN TRUE
    ELSE IF ~get_bytes(content, pos).ok THEN FALSE
    ELSE RecordsFrom(content, pos + I32Size + Len(get_bytes(content, pos).val))

\* C32: the boundary of the tail page lies between the header's end and the
\* block size, and the bytes from the boundary on are well-formed records
\* that end with the block
C32_TailPageWellFormed ==
    LET b == get_integer(log.log_page, 0).val IN
    /\ I32Size <= b
    /\ b <= BlockSize
    /\ RecordsFrom(log.log_page, b)

\* C33: next() returns end-of-sequence only when it has block 0 loaded and
\* consumed to its end; a read that failed, or a record or boundary that
\* could not be decoded, does not end the scan
C33_EndOnlyAfterBlockZero ==
    [][\A t \in Threads :
          (pc[t] = "iter" /\ pc'[t] = "idle") =>
              /\ faults' = faults
              /\ call'[t].it.blk.block_no = 0
              /\ call'[t].it.page = files[LOG_FILE][1]
              /\ call'[t].it.current_position = BlockSize]_vars

\* C34: a LogManager constructed on the log file a previous instance left
\* takes the file's last block as its tail, and a scan yields exactly the
\* records that instance had saved, newest first; a record appended through
\* the new instance is yielded ahead of all of those, none of which is lost
C34_RestartKeepsDiskRecords ==
    \A t \in Threads :
        /\ (call[t].op = "restart" /\ call[t].result = "ok") =>
              /\ log.current_block = BlockId(LOG_FILE, Len(files[LOG_FILE]) - 1)
              /\ Scanned = UpTo(call[t].before.log.latest_saved_lsn)
        /\ (calls = 1 /\ call[t].op = "append" /\ call[t].result = "ok") =>
              LET old == call[t].before
              IN ScannedAfterFlush
                     = << appended[Len(appended)] >>
                           \o log_iter(old.log, flush_internal(old.log, old.files, "none").files)


---------------------------------------------------------------------------
(* Claims about the buffer pool, one client (Spec) *)

Returned(t) == pc[t] \in {"pin_ok", "pin_timeout"}

BlockOf(t) == CHOOSE b \in call[t].block : TRUE

Resident(bufs, block) == \E i \in Slots : bufs[i].block_id = {block}

\* C1: every data page that Buffer.flush writes is written after a log flush
\* of the buffer's LSN that returned Ok, with latest_saved_lsn >= that LSN
\* when the LSN is non-negative
C1_LogFlushedBeforeDataWrite ==
    \A k \in 1..Len(wal) :
        /\ wal[k].log_flushed
        /\ wal[k].lsn >= 0 => wal[k].saved_lsn >= wal[k].lsn

\* an eviction inside pin wrote a dirty page whose log record was not yet
\* durable when pin was called
C1_Witness ==
    /\ pc[Main] = "pin_ok"
    /\ Len(wal) = 1
    /\ wal[1].lsn >= 1
    /\ call[Main].before.log.latest_saved_lsn < wal[1].lsn

\* C3: available equals the number of pool buffers whose pin count is 0
C3_AvailableCountsUnpinned ==
    available = Cardinality({i \in Slots : pool[i].pins = 0})

\* C4: from an all-unpinned pool, pins of N distinct blocks succeed (unless
\* I/O fails) and leave available = 0; a further pin of a block that is not
\* resident returns the timeout error, once the maximum wait has elapsed
C4_ExhaustThenTimeout ==
    /\ (pin_run.valid /\ Cardinality(pin_run.blocks) = NumBuffers) => available = 0
    /\ \A t \in Threads :
        (/\ pc[t] = "pin_timeout"
         /\ pin_run.valid
         /\ Cardinality(pin_run.blocks) < NumBuffers
         /\ BlockOf(t) \notin pin_run.blocks) => call[t].io_failed
    /\ \A t \in Threads :
        (/\ Returned(t)
         /\ AllPinned(call[t].before.pool)
         /\ ~Resident(call[t].before.pool, BlockOf(t)))
            => (call[t].result = "timeout" /\ call[t].time_left = 0)

\* C7: pin of a block some buffer is bound to returns that buffer, with its
\* pin count one higher and nothing else in the pool, on disk or in the log
\* changed
C7_ResidentPinFrame ==
    \A t \in Threads :
        (Returned(t) /\ Resident(call[t].before.pool, BlockOf(t))) =>
            \E e \in Slots :
                /\ call[t].before.pool[e].block_id = {BlockOf(t)}
                /\ call[t].result = "ok"
                /\ call[t].slot = e
                /\ pool = [call[t].before.pool EXCEPT ![e].pins = @ + 1]
                /\ files = call[t].before.files
                /\ log = call[t].before.log
                /\ wal = << >>

\* a pinned resident buffer was pinned again while a dirty unpinned buffer
\* stood ready for eviction
C7_Witness ==
    /\ pc[Main] = "pin_ok"
    /\ \E e, j \in Slots :
        /\ call[Main].slot = e
        /\ call[Main].before.pool[e].block_id = {BlockOf(Main)}
        /\ call[Main].before.pool[e].pins = 1
        /\ j < e
        /\ call[Main].before.pool[j].pins = 0
        /\ call[Main].before.pool[j].txnum >= 0

\* C8: a pin that returns the timeout error leaves every buffer and the
\* available counter as they were when the call began
C8_TimeoutLeavesPoolUnchanged ==
    \A t \in Threads :
        pc[t] = "pin_timeout" =>
            /\ pool = call[t].before.pool
            /\ available = call[t].before.available

\* thread t makes an attempt of pin that evicts the dirty buffer in slot u
EvictsDirty(t, u) ==
    /\ pc[t] = "pin_loop"
    /\ call[t].time_left > 0
    /\ find_existing_buffer(pool, BlockOf(t)) = 0
    /\ choose_unpinned_buffer(pool) = u
    /\ pool[u].txnum >= 0

\* C15: assign_to_block on a dirty buffer either fails in its flush and
\* leaves the buffer (binding and page) as it was, or has written the
\* buffer's page to the block it was bound to, after the log flush, by the
\* time the buffer is bound to the new block
C15_AssignFlushesFirst ==
    [][\A t \in Threads : \A u \in Slots :
          EvictsDirty(t, u) =>
              IF wal' = << >>
              THEN pool' = pool
              ELSE /\ Len(wal') = 1
                   /\ pool[u].block_id = {wal'[1].block}
                   /\ wal'[1].log_flushed
                   /\ files'[DATA_FILE][wal'[1].block.block_no + 1] = pool[u].page
                   /\ pool'[u].block_id = {BlockOf(t)}]_vars

\* the flush of a dirty victim has failed inside pin
C15_Witness ==
    /\ pc[Main] = "pin_loop"
    /\ call[Main].io_failed
    /\ find_existing_buffer(pool, BlockOf(Main)) = 0
    /\ \E u \in Slots : choose_unpinned_buffer(pool) = u /\ pool[u].txnum >= 0
    /\ pool = call[Main].before.pool
    /\ faults = 1

\* C16: a flush_all(txn) that returns Ok has written the pages of exactly
\* the buffers whose modifying transaction is txn, each to its own block,
\* has left every other data block as it was, and has changed no buffer
C16_FlushAllFrame ==
    \A t \in Threads :
        (call[t].op = "flush_all" /\ call[t].result = "ok") =>
            LET was == call[t].before.pool
                disk == call[t].before.files[DATA_FILE]
                mine == {i \in Slots : was[i].txnum = call[t].txn}
            IN /\ pool = was
               /\ Len(wal) = Cardinality(mine)
               /\ {wal[k].block : k \in 1..Len(wal)} = UNION {was[i].block_id : i \in mine}
               /\ \A k \in 1..Len(files[DATA_FILE]) :
                     IF \E i \in mine : was[i].block_id = {BlockId(DATA_FILE, k - 1)}
                     THEN \E i \in mine : /\ was[i].block_id = {BlockId(DATA_FILE, k - 1)}
                                          /\ files[DATA_FILE][k] = was[i].page
                     ELSE k <= Len(disk) /\ files[DATA_FILE][k] = disk[k]

\* flush_all(txn) has returned Ok on a pool holding a buffer of txn and a
\* dirty buffer of another transaction
C16_Witness ==
    /\ call[Main].op = "flush_all"
    /\ call[Main].result = "ok"
    /\ \E i, j \in Slots :
        /\ call[Main].before.pool[i].txnum = call[Main].txn
        /\ call[Main].before.pool[j].txnum >= 0
        /\ call[Main].before.pool[j].txnum # call[Main].txn

\* C17: unpin lowers a positive pin count by 1 and raises available by 1
\* exactly when the count went from 1 to 0; at pin count 0 it changes neither;
\* no pin count is ever negative
C17_UnpinCounts ==
    /\ \A i \in Slots : pool[i].pins >= 0
    /\ \A t \in Threads :
        call[t].op = "unpin" =>
            LET was == call[t].before.pool[call[t].slot].pins IN
            /\ pool[call[t].slot].pins = IF was > 0 THEN was - 1 ELSE 0
            /\ available = call[t].before.available + (IF was = 1 THEN 1 ELSE 0)

\* C19: once assign_to_block has failed with an I/O error inside pin, pin has
\* returned, and its result is neither a buffer nor the timeout error
C19_IoErrorReturned ==
    \A t \in Threads :
        (call[t].op = "pin" /\ call[t].io_failed) =>
            (Returned(t) /\ call[t].result \notin {"ok", "timeout"})

---------------------------------------------------------------------------
(* Claims about the FileManager (SpecFile, SpecDir) *)

\* C26: a successful append_block returns the block number equal to the
\* file's block count before the call, leaves a zero-filled block there, and
\* the file is one block longer than before
C26_AppendBlockIsDense ==
    \A t \in Threads :
        (call[t].op = "append_block" /\ call[t].result = "ok") =>
            LET n == Len(call[t].before.files[TABLE_FILE])
                blk == CHOOSE b \in call[t].block : TRUE
            IN /\ blk.block_no = n
               /\ Len(files[TABLE_FILE]) = n + 1
               /\ files[TABLE_FILE][blk.block_no + 1] = with_size(BlockSize)

\* C27: FileManager::new removes from the directory exactly the files whose
\* name begins with "temp", whatever the directory's path
C27_NewRemovesTempFilesOnly ==
    \A t \in Threads :
        call[t].op = "new" =>
            root_dir.entries =
                {name \in call[t].arg.entries : ~str_starts_with(name, TEMP_MARKER)}

---------------------------------------------------------------------------
(* Further claims about the buffer pool, one client (Spec) *)

\* C28: the buffer a pin returns is bound to the block asked for and its
\* page holds that block's bytes as read from disk (clients get &Page only,
\* so a block's bytes on disk and in a buffer loaded from it are those of
\* DataPage)
C28_PinnedPageIsTheBlock ==
    \A t \in Threads :
        pc[t] = "pin_ok" =>
            LET b == pool[call[t].slot] IN
            /\ b.block_id = {BlockOf(t)}
            /\ BlockOf(t).block_no < Len(files[DATA_FILE])
            /\ b.page = DataPage(BlockOf(t).block_no)

\* C29: a buffer is clean (modifying_txn() = -1) when Buffer.flush has just
\* succeeded on it and when pin has just bound it to another block
C29_CleanAfterFlush ==
    \A t \in Threads :
        /\ (call[t].op = "buffer_flush" /\ call[t].result = "ok") =>
               modifying_txn(pool[call[t].slot]) = -1
        /\ (pc[t] = "pin_ok" /\ ~Resident(call[t].before.pool, BlockOf(t))) =>
               modifying_txn(pool[call[t].slot]) = -1

\* C36: a try_to_pin that finds no buffer bound to the block while some
\* buffer has pin count 0 evicts and returns the buffer of lowest pool index
\* among those with pin count 0, whatever that buffer holds
C36_EvictsLowestUnpinned ==
    [][\A t \in Threads :
          (/\ pc[t] = "pin_loop"
           /\ pc'[t] = "pin_ok"
           /\ \A i \in Slots : pool[i].block_id # call[t].block) =>
              LET v == call'[t].slot
              IN /\ pool[v].pins = 0
                 /\ \A j \in Slots : j < v => pool[j].pins > 0
                 /\ pool'[v].block_id = call[t].block
                 /\ pool'[v].pins = 1]_vars

\* a pin has evicted the dirty first buffer although the clean second buffer,
\* bound to another block, had pin count 0 as well
C36_Witness ==
    \E t \in Threads :
        /\ pc[t] = "pin_ok"
        /\ call[t].slot = 1
        /\ ~call[t].io_failed
        /\ call[t].before.pool[1].pins = 0
        /\ call[t].before.pool[1].txnum >= 0
        /\ call[t].before.pool[1].block_id \notin {{}, call[t].block}
        /\ call[t].before.pool[2].pins = 0
        /\ call[t].before.pool[2].txnum < 0
        /\ call[t].before.pool[2].block_id \notin {{}, call[t].block}
        /\ pool[1].block_id = call[t].block


\* thread t's try_to_pin is about to succeed on a buffer already bound to the
\* block it asked for
HitStep(t) ==
    /\ pc[t] = "pin_loop"
    /\ pc'[t] = "pin_ok"
    /\ \E i \in Slots : pool[i].block_id = call[t].block

\* C37: a try_to_pin that finds a buffer already bound to the block adds 1 to
\* that buffer's pin count and changes nothing else in the pool; it takes 1
\* from the pool's free count if the buffer's pin count was 0, and leaves the
\* free count alone otherwise
C37_HitPinsAndTakesFree ==
    [][\A t \in Threads :
          HitStep(t) =>
              LET e == call'[t].slot
              IN /\ pool[e].block_id = call[t].block
                 /\ pool' = [pool EXCEPT ![e].pins = pool[e].pins + 1]
                 /\ available' = IF pool[e].pins = 0 THEN available - 1
                                 ELSE available]_vars

\* C37 as the specification words it: the free count goes up by 1 when the
\* buffer's pin count was 0
C37_HitPinsAndAddsFree ==
    [][\A t \in Threads :
          HitStep(t) =>
              LET e == call'[t].slot
              IN /\ pool[e].block_id = call[t].block
                 /\ pool' = [pool EXCEPT ![e].pins = pool[e].pins + 1]
                 /\ available' = IF pool[e].pins = 0 THEN available + 1
                                 ELSE available]_vars

\* a pin has found its block in a buffer whose pin count was 0 and has
\* returned that buffer, the free count one lower than before
C37_Witness ==
    \E t \in Threads :
        /\ pc[t] = "pin_ok"
        /\ ~call[t].io_failed
        /\ call[t].before.pool[call[t].slot].block_id = call[t].block
        /\ call[t].before.pool[call[t].slot].pins = 0
        /\ pool[call[t].slot].pins = 1
        /\ available = call[t].before.available - 1

---------------------------------------------------------------------------
(* Claims about the buffer pool, several threads (SpecConc) *)

\* C5: when an unpin of a buffer is issued while a pin waits on a full pool
\* with its deadline ahead, the waiting pin succeeds instead of timing out
C5_UnpinLetsWaitingPinSucceed ==
    \A t, u \in Threads :
        ~(/\ pc[t] = "pin_timeout"
          /\ pc[u] = "unpin_wait_pool"
          /\ call[u].during_wait
          /\ pool[call[u].slot].pins = 1)

\* thread t is inside try_to_pin, before its deadline, waiting for the lock
\* of a buffer whose holder waits for the BufferManager that t holds
StuckInPin(t) ==
    /\ pc[t] = "pin_loop"
    /\ call[t].time_left > 0
    /\ \E i \in ScannedSlots(pool, BlockOf(t)) :
        \E u \in Threads \ {t} : buf_lock[i] = u /\ pc[u] = "unpin_wait_pool"

\* C6: pin never blocks indefinitely, whatever locks other threads hold or
\* wait for
C6_PinNeverBlocksForever == \A t \in Threads : ~StuckInPin(t)

\* thread t is inside a try_to_pin that took slot i as its victim
EvictsSlot(t, i) ==
    /\ pc[t] \in {"pin_chosen", "pin_ok"}
    /\ call[t].victim = i

\* C9: no two pin calls for different blocks are both handed the same slot
\* as their victim
C9_VictimNotShared ==
    \A t, u \in Threads : \A i \in Slots :
        (t # u /\ EvictsSlot(t, i) /\ EvictsSlot(u, i)) => call[t].block = call[u].block

\* one thread has picked its victim while another, asking to pin a different
\* block that is not resident, would pick the same slot
C9_Witness ==
    \E t, u \in Threads :
        /\ pc[t] = "pin_chosen"
        /\ call[t].victim # 0
        /\ pc[u] = "pin_wait_pool"
        /\ call[u].block # call[t].block
        /\ find_existing_buffer(pool, BlockOf(u)) = 0
        /\ choose_unpinned_buffer(pool) = call[t].victim

\* thread t is inside Buffer::flush, blocked in log_manager.lock()
WaitsForLog(t) == FlushLocksLog(t) /\ ~LogLockFree

\* C18: no thread waits for the log lock while it holds the buffer-pool lock
C18_NoLogWaitUnderPoolLock ==
    \A t \in Threads : ~(t \in pool_lock /\ WaitsForLog(t))

\* a thread waits for the log lock inside pin while the thread that holds the
\* log lock waits for the buffer-pool lock
LogPoolDeadlock ==
    \E t, u \in Threads :
        /\ t \in pool_lock
        /\ WaitsForLog(t)
        /\ u \in LogLockHolders
        /\ pc[u] = "pin_wait_pool"

\* C30: a step never changes the binding or the page of a buffer whose pin
\* count is above 0, and the assign_to_block of a pin runs on a victim whose
\* pin count is 0 when it runs
C30_PinnedNeverRebound ==
    [][/\ \A i \in Slots :
             pool[i].pins > 0 =>
                 /\ pool'[i].block_id = pool[i].block_id
                 /\ pool'[i].page = pool[i].page
       /\ \A t \in Threads :
             (/\ pc[t] = "pin_chosen"
              /\ call[t].hit = 0
              /\ call[t].victim # 0
              /\ pc'[t] # "pin_chosen") =>
                 pool[call[t].victim].pins = 0]_vars

\* a pin has passed over the pinned first buffer and picked the second as
\* its victim, while another thread is on its way to unpin the first
C30_Witness ==
    \E t, u \in Threads :
        /\ pc[t] = "pin_chosen"
        /\ call[t].hit = 0
        /\ call[t].victim = 2
        /\ pool[1].pins > 0
        /\ pool[2].block_id # {}
        /\ pc[u] = "unpin_wait_pool"
        /\ call[u].slot = 1

\* C31: no two buffers of the pool are bound to the same block
C31_NoBlockBoundTwice ==
    \A i, j \in Slots :
        (i # j /\ pool[i].block_id # {}) => pool[i].block_id # pool[j].block_id

\* both buffers are bound, the first one to a block it was given by an
\* eviction after a failed read had left it bound without the block's bytes
C31_Witness ==
    /\ \A i \in Slots : pool[i].block_id # {}
    /\ \E t \in Threads :
          /\ pc[t] = "pin_ok"
          /\ call[t].io_failed
          /\ call[t].slot = 1
          /\ pool[2].pins > 0


---------------------------------------------------------------------------
(* Claims about the FileManager, several threads (SpecFileConc) *)

\* C35: the append_block calls of the threads on one path return pairwise
\* different BlockIds and each grows the file by one block, however the calls
\* overlap
C35_AppendBlockAtomic ==
    /\ \A i, j \in 1..Len(appended) : i # j => appended[i] # appended[j]
    /\ Len(files[TABLE_FILE]) = Len(appended)

====
